---- MODULE Spec2Model ----
(***************************************************************************)
(* State-machine model of the checkpointed 10-K batch fetcher              *)
(* (src/src/fetch_10k_html_batch.py): the checkpoint store, the fetcher,   *)
(* the retry loop, the part writer and the resume after a crash; and of    *)
(* the quarter-merge job (src/src/partition_2_quarters.py): its lock file, *)
(* manifest and quarter files.                                             *)
(***************************************************************************)
EXTENDS Integers, Sequences, FiniteSets, Bags, TLC

\* ------------------------------------------------------------------ bounds
MaxRowGroups == 2      \* row groups of the input parquet
MaxRows == 3           \* rows of the input parquet, over all row groups
MaxCrashes == 1        \* process crashes of one behaviour
MaxClock == 0          \* values time.time() takes: 0..MaxClock
MaxCut == 0            \* pairs left in a checkpoint file by a partial write
MaxRetryLimit == 2     \* --retry-limit
MaxCheckpointEvery == 2 \* --checkpoint-every
MaxSaveEvery == 2      \* --checkpoint-save-every
MaxBatchFiles == 2     \* --batch-files
MaxJobRuns == 2        \* starts of the quarter-merge job, over its instances

\* --------------------------------------------------------------- constants
TENK_FORMS == {"10-K", "10-K/A"}

\* ----------------------------------------------------------------- strings
\* A path is a sequence of characters, so that prefix tests are computed.
GS_PREFIX == <<"g", "s", ":", "/", "/">>

LowerChar(c) ==
    CASE c = "G" -> "g"
      [] c = "S" -> "s"
      [] c = "T" -> "t"
      [] c = "X" -> "x"
      [] c = "H" -> "h"
      [] c = "M" -> "m"
      [] c = "L" -> "l"
      [] OTHER -> c

Lower(s) == [k \in 1..Len(s) |-> LowerChar(s[k])]

RECURSIVE LStrip(_)
LStrip(s) == IF s # <<>> /\ Head(s) = " " THEN LStrip(Tail(s)) ELSE s

RECURSIVE RStrip(_)
RStrip(s) ==
    IF s # <<>> /\ s[Len(s)] = " " THEN RStrip(SubSeq(s, 1, Len(s) - 1)) ELSE s

Strip(s) == RStrip(LStrip(s))

StartsWith(s, p) == Len(s) >= Len(p) /\ SubSeq(s, 1, Len(p)) = p

\* p.strip().lower().startswith("gs://")
is_gcs_path(p) == StartsWith(Lower(Strip(p)), GS_PREFIX)

\* Index of the first "/" of s, 0 when there is none.
RECURSIVE FindSlash(_, _)
FindSlash(s, k) ==
    IF k > Len(s) THEN 0 ELSE IF s[k] = "/" THEN k ELSE FindSlash(s, k + 1)

\* raises ValueError unless the stripped url starts with "gs://" as written
parse_gcs_url(gs_url) ==
    LET s == Strip(gs_url)
        rest == SubSeq(s, 6, Len(s))
        cut == FindSlash(rest, 1)
    IN  IF ~StartsWith(s, GS_PREFIX)
        THEN [raised |-> TRUE, bucket |-> <<>>, key |-> <<>>]
        ELSE [raised |-> FALSE,
              bucket |-> IF cut = 0 THEN rest ELSE SubSeq(rest, 1, cut - 1),
              key |-> IF cut = 0 THEN <<>> ELSE SubSeq(rest, cut + 1, Len(rest))]

\* -------------------------------------------------------------------- JSON
\* Decimal digits of a natural number, as json.dumps prints an int.
RECURSIVE ToDigits(_)
ToDigits(n) == IF n < 10 THEN <<n>> ELSE Append(ToDigits(n \div 10), n % 10)

\* The int json.loads reads from decimal digits.
RECURSIVE FromDigits(_)
FromDigits(d) ==
    IF Len(d) = 1 THEN d[1]
    ELSE 10 * FromDigits(SubSeq(d, 1, Len(d) - 1)) + d[Len(d)]

\* json.dumps of a dict of ints: the pairs in insertion order; the object is
\* closed by its final brace.
json_dumps(state) ==
    [closed |-> TRUE,
     pairs |-> [k \in 1..Len(state) |-> <<state[k][1], ToDigits(state[k][2])>>]]

\* json.loads: raises on text that is not a complete object.
json_loads(text) ==
    IF ~text.closed
    THEN [raised |-> TRUE, dict |-> <<>>]
    ELSE [raised |-> FALSE,
          dict |-> [k \in 1..Len(text.pairs) |->
                      <<text.pairs[k][1], FromDigits(text.pairs[k][2])>>]]

\* dict.get(key, default) on a dict kept as a sequence of <<key, value>>.
DictGet(dict, key, default) ==
    IF \E k \in 1..Len(dict) : dict[k][1] = key
    THEN dict[CHOOSE k \in 1..Len(dict) : dict[k][1] = key][2]
    ELSE default

\* -------------------------------------------------------- checkpoint store
\* The object at the checkpoint path: absent, or a text.
NoFile == [exists |-> FALSE, closed |-> FALSE, pairs |-> <<>>]

FileOf(text) == [exists |-> TRUE, closed |-> text.closed, pairs |-> text.pairs]

\* gcs_exists parses the url before it asks the store.
gcs_exists(gs_url, file) ==
    IF parse_gcs_url(gs_url).raised
    THEN [raised |-> TRUE, value |-> FALSE]
    ELSE [raised |-> FALSE, value |-> file.exists]

checkpoint_exists(path, file) ==
    IF is_gcs_path(path)
    THEN gcs_exists(path, file)
    ELSE [raised |-> FALSE, value |-> file.exists]

\* The result of load_checkpoint: it raised, it returned None, or a dict.
load_checkpoint(path, file) ==
    LET ex == checkpoint_exists(path, file)
        js == json_loads([closed |-> file.closed, pairs |-> file.pairs])
    IN  IF ex.raised THEN [raised |-> TRUE, none |-> TRUE, dict |-> <<>>]
        ELSE IF ~ex.value THEN [raised |-> FALSE, none |-> TRUE, dict |-> <<>>]
        ELSE IF is_gcs_path(path) /\ parse_gcs_url(path).raised
             THEN [raised |-> FALSE, none |-> TRUE, dict |-> <<>>]
        ELSE IF js.raised THEN [raised |-> FALSE, none |-> TRUE, dict |-> <<>>]
        ELSE [raised |-> FALSE, none |-> FALSE, dict |-> js.dict]

\* What a write to the checkpoint path does: "ok" stores the payload, "error"
\* fails before anything is stored, "partial" fails after the local file was
\* truncated and cut pairs were written. Object-store writes are all or nothing.
WriteOutcomes(path, faulty) ==
    IF ~faulty THEN {"ok"}
    ELSE IF is_gcs_path(path) THEN {"ok", "error"}
    ELSE {"ok", "error", "partial"}

\* A save_checkpoint without the except clause: a failed write raises.
save_checkpoint_Reraises(path, state, now, outcome, cut, file) ==
    LET wrote == IF is_gcs_path(path) /\ parse_gcs_url(path).raised
                 THEN "error" ELSE outcome
    IN  [raised |-> wrote # "ok",
         wrote |-> wrote,
         file |-> IF wrote = "ok"
                  THEN FileOf(json_dumps(Append(state, <<"updated_at_unix", now>>)))
                  ELSE file]

\* save_checkpoint: the payload is the state plus the timestamp; the write and,
\* for an object-store path, the parsing of the url run inside the try, so
\* raised is FALSE whatever happens. wrote tells what reached the store.
save_checkpoint(path, state, now, outcome, cut, file) ==
    LET payload == json_dumps(Append(state, <<"updated_at_unix", now>>))
        wrote == IF is_gcs_path(path) /\ parse_gcs_url(path).raised
                 THEN "error" ELSE outcome
    IN  [raised |-> FALSE,
         wrote |-> wrote,
         file |-> CASE wrote = "ok" -> FileOf(payload)
                    [] wrote = "partial" ->
                         [exists |-> TRUE, closed |-> FALSE,
                          pairs |-> SubSeq(payload.pairs, 1, cut)]
                    [] OTHER -> file]

\* ----------------------------------------------------------------- fetcher
\* A row of the input: its Form Type, the layout of its Filename, and how the
\* server answers for it (the deterministic fetch stub).
\*   layout: "missing" (empty Filename), "direct" (ends in .txt/.htm/.html),
\*           "short" (fewer than four path parts), "folder" (accession folder)
\*   site:   "up" (200 with a body), "down" (never 200), "flaky" (200 from the
\*           second call on), "empty" (200 with an empty body), "timeout"
\*           (requests.get raises), "notable" (index page without the document
\*           table), "nolink" (table without a document link), "filedown"
\*           (index page fine, the document itself never 200), "badpage"
\*           (200 with a body the parser raises on)
NoResult == [url |-> "None", html |-> "None", status |-> "None"]

\* The first GET of a call answers 200.
FirstGetOk(row, call) ==
    \/ row.site \in {"up", "empty", "notable", "nolink", "filedown", "badpage"}
    \/ row.site = "flaky" /\ call >= 2

Body(row) == IF row.site = "empty" THEN "" ELSE "html"

\* ---- the Filename of a row
ARCHIVES_ROOT == <<"h", "t", "t", "p", "s", ":", "/", "/", "w", "w", "w", ".", "s", "e", "c", ".", "g", "o", "v", "/", "A", "r", "c", "h", "i", "v", "e", "s", "/">>

DOC_EXTENSIONS == {<<".", "t", "x", "t">>, <<".", "h", "t", "m">>, <<".", "h", "t", "m", "l">>}

EndsWith(s, e) == Len(s) >= Len(e) /\ SubSeq(s, Len(s) - Len(e) + 1, Len(s)) = e

\* str(...).strip().replace(" ", "")
CleanFilename(f) == SelectSeq(Strip(f), LAMBDA c : c # " ")

\* An lstrip that leaves the leading slashes where they are.
LStripSlash_Keep(s) == s

\* filename.lstrip("/")
RECURSIVE LStripSlash(_)
LStripSlash(s) == IF s # <<>> /\ Head(s) = "/" THEN LStripSlash(Tail(s)) ELSE s

\* len(filename.split("/"))
PathParts(s) == 1 + Cardinality({k \in 1..Len(s) : s[k] = "/"})

\* The branch of extract_filing_html_directly a Filename takes.
LayoutOf(f) ==
    LET filename == CleanFilename(f)
    IN  IF filename = <<>> THEN "missing"
        ELSE IF \E e \in DOC_EXTENSIONS : EndsWith(Lower(filename), e) THEN "direct"
        ELSE IF PathParts(filename) < 4 THEN "short"
        ELSE "folder"

\* filing_url of the direct-document branch.
DirectUrl(f) == ARCHIVES_ROOT \o LStripSlash(CleanFilename(f))

\* An except clause that lets the exception through to the caller.
ExceptionResult_Uncaught == [url |-> "None", html |-> "None", status |-> "Uncaught"]

\* except Exception as e: return None, None, "Exception: e"
ExceptionResult == [url |-> "None", html |-> "None", status |-> "Exception"]

\* A statement inside the try raises: requests.get (every layout that makes a
\* request), or the parser on the index page.
Raises(row) ==
    \/ row.site = "timeout" /\ row.layout # "short"
    \/ row.site = "badpage" /\ row.layout = "folder"

\* (url, content, status) of the call-th call for the row in one run.
extract_filing_html_directly(row, call) ==
    IF row.layout = "missing"
    THEN [url |-> "None", html |-> "None", status |-> "Missing or invalid Filename"]
    ELSE IF Raises(row)
    THEN ExceptionResult
    ELSE IF row.layout = "direct"
    THEN IF ~FirstGetOk(row, call)
         THEN [url |-> "filing_url", html |-> "None", status |-> "Filing fetch failed"]
         ELSE [url |-> "filing_url", html |-> Body(row), status |-> "Success (direct)"]
    ELSE IF row.layout = "short"
    THEN [url |-> "None", html |-> "None", status |-> "Invalid path"]
    ELSE IF ~FirstGetOk(row, call)
    THEN [url |-> "index_url", html |-> "None", status |-> "Index fetch failed"]
    ELSE IF row.site = "notable"
    THEN [url |-> "index_url", html |-> "None", status |-> "No document table found"]
    ELSE IF row.site = "nolink"
    THEN [url |-> "index_url", html |-> "None",
          status |-> "No primary .htm/.html link found"]
    ELSE IF row.site = "filedown"
    THEN [url |-> "filing_url", html |-> "None", status |-> "Filing fetch failed"]
    ELSE [url |-> "filing_url", html |-> Body(row), status |-> "Success (index)"]

\* The statuses of a structural failure: the page was retrieved, the table or
\* the link is not in it.
StructuralStatuses == {"No document table found", "No primary .htm/.html link found"}

\* Python truthiness of html_text: None and "" are false.
Truthy(html) == html \notin {"None", ""}

\* df["Form Type"].astype("string").str.strip().str.upper()
NormalizeForm(form) ==
    CASE form = " 10-k/a " -> "10-K/A"
      [] form = "10-k" -> "10-K"
      [] OTHER -> form

\* ------------------------------------------------------------------- state
VARIABLES
    args,                 \* the parsed command line
    input,                \* the input parquet: a sequence of row groups
    columns,              \* the column names of the input parquet
    faulty,               \* writes to the checkpoint path can fail
    ckptFile,             \* the object at args.checkpoint_path
    parts,                \* the written part files, by part index
    pc,                   \* where main is
    rg, i,                \* the loop variables of main
    start_rg, start_i,
    current_rowgroup, current_row_index,
    out_part, ok_in_part, total_seen, total_ok,
    processed_since_ckpt,
    buffer,
    last,                 \* (url, html_text, status) of the retry loop
    ret,                  \* the caller flush_part returns to
    run,                  \* 1 for the first process, +1 for every restart
    lastStep,             \* the step taken last
    callLog,              \* (status, content) of the calls made for the current row
    attempted,            \* rows this run called the fetcher for
    processed,            \* rows this run appended a record for
    prevProcessed,        \* processed, as the crashed run left it
    flushedAtCrash,       \* rows in written parts when the run crashed
    crashPoint,           \* where the run crashed: "after_flush" (part written
                          \* and checkpoint saved), "mid_flush" (part written,
                          \* checkpoint not yet saved), "other"; "none" before
    delayOwed,            \* a row was fetched and time.sleep(delay) not yet run
    lastSaved,            \* the state handed to the last save_checkpoint call
    lastWrite,            \* what that call's write did: "ok", "error", "partial"
    saveFailed            \* some checkpoint write of this run failed

\* The quarter-merge job (src/src/partition_2_quarters.py).
VARIABLES
    procs,                \* the instances of the job
    jobArgs,              \* --batch-files, --sleep-seconds (same for all instances)
    inputFiles,           \* the .parquet objects under --input-prefix
    lockFile,             \* a file exists at --lock-path
    lockCreator,          \* the instance whose open() created that file, 0 for none
    manifestObj,          \* the object at --manifest
    manifestTmp,          \* the object at <manifest>.tmp
    quarterObj,           \* the quarter files under --out-base, by (year, quarter)
    quarterTmp,           \* their .tmp objects
    jpc,                  \* where main is, per instance
    new_files,            \* per instance: the new files not yet in a batch
    batch,                \* per instance: the batch being processed
    grouped,              \* per instance: the groups of the batch not yet merged
    acquired,             \* per instance: acquire_local_lock returned and
                          \* release_local_lock has not run since
    jobRuns,              \* starts of main so far, over all instances
    handled               \* per instance: the files this run put into a batch

jobStore == <<lockFile, lockCreator, manifestObj, manifestTmp, quarterObj, quarterTmp>>
jobLocal == <<jpc, new_files, batch, grouped, acquired>>
jobVars == <<procs, jobArgs, inputFiles, jobStore, jobLocal, jobRuns, handled>>

cfgVars == <<args, input, columns, faulty>>
diskVars == <<ckptFile, parts>>
posVars == <<rg, i, start_rg, start_i, current_rowgroup, current_row_index>>
cntVars == <<out_part, ok_in_part, total_seen, total_ok, processed_since_ckpt>>
memVars == <<posVars, cntVars, buffer, last, ret>>
crashVars == <<run, prevProcessed, flushedAtCrash, crashPoint>>
logVars == <<callLog, attempted, processed, delayOwed>>
saveVars == <<lastSaved, lastWrite, saveFailed>>
fetchVars == <<cfgVars, diskVars, pc, memVars, crashVars, logVars, saveVars, lastStep>>
vars == <<fetchVars, jobVars>>

\* ------------------------------------------------------------------ inputs
SeqsUpTo(S, n) == UNION {[1..k -> S] : k \in 0..n}

\* The inputs of at most groups row groups and n rows in all.
RECURSIVE InputsWith(_, _, _)
InputsWith(rows, groups, n) ==
    IF groups = 0 THEN {<<>>}
    ELSE {<<>>} \cup
         UNION {{<<h>> \o t : t \in InputsWith(rows, groups - 1, n - Len(h))} :
                  h \in SeqsUpTo(rows, n)}

InputsOver(rows) == InputsWith(rows, MaxRowGroups, MaxRows)

Row(form, layout, site) == [form |-> form, layout |-> layout, site |-> site]

LocalPath == <<"o", "u", "t", "/", "c">>
GcsPath == <<"g", "s", ":", "/", "/", "b", "/", "c">>
GcsUpperPath == <<"G", "S", ":", "/", "/", "b", "/", "c">>

\* The columns main and the fetcher read by name.
AllColumns == {"Form Type", "Filename"}

\* A filter that is applied whether or not the column is there.
FilterApplies_Always(cols) == TRUE

\* if "Form Type" in df.columns
FilterApplies(cols) == "Form Type" \in cols

\* df of a row group after the Form Type filter, which is left out when the
\* column is not there, and reset_index.
Candidates(g) ==
    IF FilterApplies(columns)
    THEN SelectSeq(input[g + 1], LAMBDA r : NormalizeForm(r.form) \in TENK_FORMS)
    ELSE input[g + 1]

num_row_groups == Len(input)

\* All candidate rows of the input, as <<row group, index in df>>.
AllCandidates ==
    UNION {{<<g, k>> : k \in 0..(Len(Candidates(g)) - 1)} :
             g \in 0..(num_row_groups - 1)}

\* ------------------------------------------------------------------- Init
\* No object, in any store.
NoObject == [exists |-> FALSE, lines |-> <<>>]

\* The quarter-merge job is not there.
JobIdle ==
    /\ procs = {}
    /\ jobArgs = [batch_files |-> 1, sleep_seconds |-> 0]
    /\ inputFiles = {}
    /\ lockFile = FALSE
    /\ lockCreator = 0
    /\ manifestObj = NoObject
    /\ manifestTmp = NoObject
    /\ quarterObj = <<>>
    /\ quarterTmp = <<>>
    /\ jpc = <<>> /\ new_files = <<>> /\ batch = <<>> /\ grouped = <<>>
    /\ acquired = <<>> /\ handled = <<>>
    /\ jobRuns = 0

\* Nothing on disk, nothing logged.
InitRest ==
    /\ ckptFile = NoFile
    /\ parts = <<>>
    /\ last = NoResult
    /\ ret = "none"
    /\ buffer = <<>>
    /\ processed_since_ckpt = 0
    /\ start_rg = 0 /\ start_i = 0
    /\ current_rowgroup = 0 /\ current_row_index = 0
    /\ run = 1
    /\ lastStep = "Init"
    /\ callLog = <<>>
    /\ attempted = {} /\ processed = {}
    /\ prevProcessed = {} /\ flushedAtCrash = {}
    /\ crashPoint = "none"
    /\ delayOwed = FALSE
    /\ lastSaved = <<>>
    /\ lastWrite = "none"
    /\ saveFailed = FALSE

\* The process is started on an input with a command line.
InitWith(argSet, inputSet, faults) ==
    /\ args \in argSet
    /\ input \in inputSet
    /\ columns = AllColumns
    /\ faulty = faults
    /\ pc = "start"
    /\ rg = 0 /\ i = 0
    /\ out_part = 0 /\ ok_in_part = 0 /\ total_seen = 0 /\ total_ok = 0
    /\ InitRest
    /\ JobIdle

\* -------------------------------------------------------------------- main
\* The state dict persist_ckpt builds from its arguments and main's counters.
CkptState(rowgroup, row_in_rowgroup, part, ok, seen, tok) ==
    << <<"rowgroup", rowgroup>>, <<"row_in_rowgroup", row_in_rowgroup>>,
       <<"out_part", part>>, <<"ok_in_part", ok>>,
       <<"total_seen", seen>>, <<"total_ok", tok>> >>

\* persist_ckpt(rowgroup, row_in_rowgroup) with main's counters as given; main
\* goes on at nextPc unless save_checkpoint raised.
persist_ckpt(rowgroup, row_in_rowgroup, part, ok, seen, tok, nextPc) ==
    \E now \in 0..MaxClock, cut \in 0..MaxCut,
       outcome \in WriteOutcomes(args.checkpoint_path, faulty) :
        LET st == CkptState(rowgroup, row_in_rowgroup, part, ok, seen, tok)
            r == save_checkpoint(args.checkpoint_path, st, now, outcome, cut, ckptFile)
        IN  /\ ckptFile' = r.file
            /\ pc' = IF r.raised THEN "raised" ELSE nextPc
            /\ lastSaved' = st
            /\ lastWrite' = r.wrote
            /\ saveFailed' = (saveFailed \/ r.wrote # "ok")

NoPersist(nextPc) ==
    /\ pc' = nextPc
    /\ UNCHANGED <<ckptFile, saveVars>>

\* A periodic checkpoint that comes one row late.
CheckpointDue_Late(since, every) == since > every

\* if processed_since_ckpt >= args.checkpoint_save_every
CheckpointDue(since, every) == since >= every

\* The current row of the row loop.
\* row.get("Filename", "") is "" when the column is not there.
CurRow ==
    LET row == Candidates(rg)[i + 1]
    IN  IF "Filename" \in columns THEN row ELSE [row EXCEPT !.layout = "missing"]
CurId == <<rg, i>>

\* The record main appends for the current row.
Record(status, url, text) ==
    [row |-> CurId, status |-> status, filing_url |-> url, filing_text |-> text]

\* Load the checkpoint and set up the counters and the position.
Start ==
    /\ pc = "start"
    /\ LET ld == load_checkpoint(args.checkpoint_path, ckptFile)
           ckpt == IF ld.none THEN <<>> ELSE ld.dict
       IN  IF ld.raised
           THEN /\ pc' = "raised"
                /\ UNCHANGED memVars
           ELSE /\ pc' = "rg_head"
                /\ start_rg' = DictGet(ckpt, "rowgroup", 0)
                /\ start_i' = DictGet(ckpt, "row_in_rowgroup", 0)
                /\ out_part' = DictGet(ckpt, "out_part", 0)
                /\ ok_in_part' = DictGet(ckpt, "ok_in_part", 0)
                /\ total_seen' = DictGet(ckpt, "total_seen", 0)
                /\ total_ok' = DictGet(ckpt, "total_ok", 0)
                /\ processed_since_ckpt' = 0
                /\ buffer' = <<>>
                /\ current_rowgroup' = DictGet(ckpt, "rowgroup", 0)
                /\ current_row_index' = DictGet(ckpt, "row_in_rowgroup", 0)
                /\ rg' = DictGet(ckpt, "rowgroup", 0)
                /\ UNCHANGED <<i, last, ret>>
    /\ lastStep' = "Start"
    /\ UNCHANGED <<jobVars, cfgVars, diskVars, crashVars, logVars, saveVars>>

\* The head of the row-group loop: the end of the range, the --max-rowgroups
\* cap, the Form Type filter, the empty row group.
RowGroupHead ==
    /\ pc = "rg_head"
    /\ IF rg >= num_row_groups \/ (args.max_rowgroups # 0 /\ rg >= args.max_rowgroups)
       THEN /\ pc' = "flush"
            /\ ret' = "final"
            /\ UNCHANGED <<posVars>>
       ELSE /\ current_rowgroup' = rg
            /\ IF Candidates(rg) = <<>>
               THEN /\ start_i' = 0
                    /\ rg' = rg + 1
                    /\ pc' = "rg_head"
                    /\ UNCHANGED <<i>>
               ELSE /\ i' = IF rg = start_rg THEN start_i ELSE 0
                    /\ pc' = "row_head"
                    /\ UNCHANGED <<start_i, rg>>
            /\ UNCHANGED <<start_rg, current_row_index, ret>>
    /\ lastStep' = "RowGroupHead"
    /\ UNCHANGED <<jobVars, cfgVars, diskVars, cntVars, buffer, last, crashVars, logVars, saveVars>>

\* The head of the row loop: the counters and the --max-filings cap.
RowHead ==
    /\ pc = "row_head"
    /\ i < Len(Candidates(rg))
    /\ current_row_index' = i
    /\ total_seen' = total_seen + 1
    /\ processed_since_ckpt' = processed_since_ckpt + 1
    /\ IF args.max_filings # 0 /\ total_seen + 1 > args.max_filings
       THEN /\ pc' = "flush"
            /\ ret' = "maxf"
       ELSE /\ pc' = "fetch"
            /\ UNCHANGED ret
    /\ last' = NoResult
    /\ callLog' = <<>>
    /\ lastStep' = "RowHead"
    /\ UNCHANGED <<jobVars, cfgVars, diskVars, rg, i, start_rg, start_i, current_rowgroup,
                   out_part, ok_in_part, total_ok, buffer, crashVars,
                   attempted, processed, delayOwed, saveVars>>

\* A retry loop that makes one call more than the budget.
RetryLoopRuns_OneMore(calls, limit, html) == calls <= limit /\ ~Truthy(html)

\* for attempt in range(retry_limit), left by break once html_text is truthy:
\* the loop makes another call.
RetryLoopRuns(calls, limit, html) == calls < limit /\ ~Truthy(html)

\* One pass of the retry loop: a call of the fetcher.
Attempt ==
    /\ pc = "fetch"
    /\ RetryLoopRuns(Len(callLog), args.retry_limit, last.html)
    /\ LET res == extract_filing_html_directly(CurRow, Len(callLog) + 1)
       IN  /\ last' = res
           /\ callLog' = Append(callLog, [status |-> res.status,
                                           content |-> Truthy(res.html)])
    /\ attempted' = attempted \cup {CurId}
    /\ delayOwed' = TRUE
    /\ lastStep' = "Attempt"
    /\ UNCHANGED <<jobVars, cfgVars, diskVars, pc, posVars, cntVars, buffer, ret, crashVars,
                   processed, saveVars>>

\* The retry loop ended without content: the failure record, the periodic
\* checkpoint, continue.
RecordFailure ==
    /\ pc = "fetch"
    /\ ~RetryLoopRuns(Len(callLog), args.retry_limit, last.html)
    /\ ~Truthy(last.html)
    /\ buffer' = Append(buffer, Record(last.status, last.url, "None"))
    /\ processed' = processed \cup {CurId}
    /\ IF CheckpointDue(processed_since_ckpt, args.checkpoint_save_every)
       THEN /\ persist_ckpt(rg, i + 1, out_part, ok_in_part, total_seen, total_ok,
                            "row_head")
            /\ processed_since_ckpt' = 0
       ELSE /\ NoPersist("row_head")
            /\ UNCHANGED processed_since_ckpt
    /\ i' = i + 1
    /\ lastStep' = "RecordFailure"
    /\ UNCHANGED <<jobVars, cfgVars, parts, rg, start_rg, start_i, current_rowgroup,
                   current_row_index, out_part, ok_in_part, total_seen, total_ok,
                   last, ret, crashVars, callLog, attempted, delayOwed>>

\* A flush check that lets one success more into the part.
FlushDue_Late(ok, every) == ok > every

\* if ok_in_part >= args.checkpoint_every
FlushDue(ok, every) == ok >= every

\* The retry loop ended with content: the success record and the flush check.
RecordSuccess ==
    /\ pc = "fetch"
    /\ Truthy(last.html)
    /\ total_ok' = total_ok + 1
    /\ ok_in_part' = ok_in_part + 1
    /\ buffer' = Append(buffer, Record("Success", last.url, last.html))
    /\ processed' = processed \cup {CurId}
    /\ IF FlushDue(ok_in_part + 1, args.checkpoint_every)
       THEN /\ pc' = "flush"
            /\ ret' = "loop"
       ELSE /\ pc' = "periodic"
            /\ UNCHANGED ret
    /\ lastStep' = "RecordSuccess"
    /\ UNCHANGED <<jobVars, cfgVars, diskVars, posVars, out_part, total_seen,
                   processed_since_ckpt, last, crashVars, callLog, attempted,
                   delayOwed, saveVars>>

\* Where main goes on after flush_part returned.
AfterFlush(caller) ==
    CASE caller = "loop" -> "periodic"
      [] caller = "maxf" -> "maxf_ckpt"
      [] OTHER -> "final_ckpt"

\* A flush that leaves the part index where it was.
NextPart_Same(part) == part

\* A flush that moves the part index by two.
NextPart_ByTwo(part) == part + 2

\* A target that is never found.
PartExists_Never(idx, written) == FALSE

\* gcs_exists(out) / Path(out).exists() for the part of an index.
PartExists(idx, written) == idx \in DOMAIN written

\* out_part += 1
NextPart(part) == part + 1

\* flush_part up to the write of the part: the empty buffer, --skip-if-exists,
\* the write, the reset of the buffer and the counters.
FlushPart ==
    /\ pc = "flush"
    /\ IF buffer = <<>>
       THEN /\ pc' = AfterFlush(ret)
            /\ UNCHANGED <<parts, buffer, out_part, ok_in_part>>
       ELSE /\ buffer' = <<>>
            /\ out_part' = NextPart(out_part)
            /\ ok_in_part' = 0
            /\ IF args.skip_if_exists /\ PartExists(out_part, parts)
               THEN /\ pc' = AfterFlush(ret)
                    /\ UNCHANGED parts
               ELSE /\ pc' = "flush_ckpt"
                    /\ parts' = (out_part :> buffer) @@ parts
    /\ lastStep' = IF buffer # <<>> /\ args.skip_if_exists /\ PartExists(out_part, parts)
                   THEN "FlushPartSkip" ELSE "FlushPart"
    /\ UNCHANGED <<jobVars, cfgVars, ckptFile, posVars, total_seen, total_ok,
                   processed_since_ckpt, last, ret, crashVars, logVars, saveVars>>

\* The end of flush_part: the checkpoint right after the write.
FlushCheckpoint ==
    /\ pc = "flush_ckpt"
    /\ persist_ckpt(current_rowgroup, current_row_index, out_part, ok_in_part,
                    total_seen, total_ok, AfterFlush(ret))
    /\ lastStep' = "FlushCheckpoint"
    /\ UNCHANGED <<jobVars, cfgVars, parts, memVars, crashVars, logVars>>

\* After a success: the periodic checkpoint and the sleep between filings.
Periodic ==
    /\ pc = "periodic"
    /\ IF CheckpointDue(processed_since_ckpt, args.checkpoint_save_every)
       THEN /\ persist_ckpt(rg, i + 1, out_part, ok_in_part, total_seen, total_ok,
                            "row_head")
            /\ processed_since_ckpt' = 0
       ELSE /\ NoPersist("row_head")
            /\ UNCHANGED processed_since_ckpt
    /\ delayOwed' = FALSE
    /\ i' = i + 1
    /\ lastStep' = "Periodic"
    /\ UNCHANGED <<jobVars, cfgVars, parts, rg, start_rg, start_i, current_rowgroup,
                   current_row_index, out_part, ok_in_part, total_seen, total_ok,
                   buffer, last, ret, crashVars, callLog, attempted, processed>>

\* The row loop ended: the checkpoint at the start of the next row group.
RowGroupEnd ==
    /\ pc = "row_head"
    /\ i >= Len(Candidates(rg))
    /\ persist_ckpt(rg + 1, 0, out_part, ok_in_part, total_seen, total_ok, "rg_head")
    /\ start_i' = 0
    /\ rg' = rg + 1
    /\ lastStep' = "RowGroupEnd"
    /\ UNCHANGED <<jobVars, cfgVars, parts, i, start_rg, current_rowgroup, current_row_index,
                   cntVars, buffer, last, ret, crashVars, logVars>>

\* After the final flush: the checkpoint past the last row group.
FinalCheckpoint ==
    /\ pc = "final_ckpt"
    /\ persist_ckpt(num_row_groups, 0, out_part, ok_in_part, total_seen, total_ok,
                    "done")
    /\ lastStep' = "FinalCheckpoint"
    /\ UNCHANGED <<jobVars, cfgVars, parts, memVars, crashVars, logVars>>

\* --max-filings reached: the checkpoint at the current row, then return.
MaxFilingsCheckpoint ==
    /\ pc = "maxf_ckpt"
    /\ persist_ckpt(rg, i, out_part, ok_in_part, total_seen, total_ok, "done")
    /\ lastStep' = "MaxFilingsCheckpoint"
    /\ UNCHANGED <<jobVars, cfgVars, parts, memVars, crashVars, logVars>>

\* Rows that have a record in some written part.
RowsInParts ==
    UNION {{parts[k][j].row : j \in 1..Len(parts[k])} : k \in DOMAIN parts}


\* The process dies and is started again with the same command line: memory is
\* lost, the checkpoint object and the parts stay.
Crash ==
    /\ pc \notin {"start", "done", "raised"}
    /\ run <= MaxCrashes
    /\ pc' = "start"
    /\ rg' = 0 /\ i' = 0 /\ start_rg' = 0 /\ start_i' = 0
    /\ current_rowgroup' = 0 /\ current_row_index' = 0
    /\ out_part' = 0 /\ ok_in_part' = 0 /\ total_seen' = 0 /\ total_ok' = 0
    /\ processed_since_ckpt' = 0
    /\ buffer' = <<>>
    /\ last' = NoResult
    /\ ret' = "none"
    /\ run' = run + 1
    /\ prevProcessed' = processed
    /\ flushedAtCrash' = RowsInParts
    /\ crashPoint' = CASE lastStep = "FlushCheckpoint" -> "after_flush"
                        [] pc = "flush_ckpt" -> "mid_flush"
                        [] OTHER -> "other"
    /\ callLog' = <<>>
    /\ attempted' = {} /\ processed' = {}
    /\ delayOwed' = FALSE
    /\ saveFailed' = FALSE
    /\ lastStep' = "Crash"
    /\ UNCHANGED <<jobVars, cfgVars, diskVars, lastSaved, lastWrite>>

\* The process ended and is started again on the same input and checkpoint
\* path, this time without --max-rowgroups and --max-filings.
Rerun ==
    /\ pc = "done"
    /\ run <= MaxCrashes
    /\ args' = [args EXCEPT !.max_rowgroups = 0, !.max_filings = 0]
    /\ pc' = "start"
    /\ rg' = 0 /\ i' = 0 /\ start_rg' = 0 /\ start_i' = 0
    /\ current_rowgroup' = 0 /\ current_row_index' = 0
    /\ out_part' = 0 /\ ok_in_part' = 0 /\ total_seen' = 0 /\ total_ok' = 0
    /\ processed_since_ckpt' = 0
    /\ buffer' = <<>>
    /\ last' = NoResult
    /\ ret' = "none"
    /\ run' = run + 1
    /\ prevProcessed' = processed
    /\ flushedAtCrash' = RowsInParts
    /\ crashPoint' = "none"
    /\ callLog' = <<>>
    /\ attempted' = {} /\ processed' = {}
    /\ delayOwed' = FALSE
    /\ saveFailed' = FALSE
    /\ lastStep' = "Rerun"
    /\ UNCHANGED <<jobVars, input, columns, faulty, diskVars, lastSaved, lastWrite>>

\* One uninterrupted run of main.
NextRun ==
    \/ Start
    \/ RowGroupHead
    \/ RowHead
    \/ Attempt
    \/ RecordFailure
    \/ RecordSuccess
    \/ FlushPart
    \/ FlushCheckpoint
    \/ Periodic
    \/ RowGroupEnd
    \/ FinalCheckpoint
    \/ MaxFilingsCheckpoint

Next == NextRun \/ Crash

\* A call of persist_ckpt at a position and counters main can hold, after
\* which the process is started again: the save and the load that follows it.
PersistCall ==
    /\ pc = "persist"
    /\ persist_ckpt(rg, i, out_part, ok_in_part, total_seen, total_ok, "start")
    /\ lastStep' = "PersistCall"
    /\ UNCHANGED <<jobVars, cfgVars, parts, memVars, crashVars, logVars>>

\* ----------------------------------------------------------- specifications
\* Crash and resume, with a checkpoint store whose writes succeed.
ResumeRows ==
    {Row("10-K", "direct", "up"), Row("10-K", "direct", "down"),
     Row("8-K", "direct", "up")}

ResumeArgs ==
    [retry_limit : {1},
     checkpoint_every : 1..MaxCheckpointEvery,
     checkpoint_save_every : 1..MaxSaveEvery,
     max_rowgroups : {0, 1},
     max_filings : {0, 2},
     skip_if_exists : BOOLEAN,
     checkpoint_path : {LocalPath}]

Init == InitWith(ResumeArgs, InputsOver(ResumeRows), FALSE)

Spec == Init /\ [][Next]_vars

\* Runs that end and are started again without the caps.
NextRerun == NextRun \/ Rerun

SpecRerun == Init /\ [][NextRerun]_vars

\* One run without a crash, with a checkpoint store whose writes can fail.
RunRows ==
    {Row("10-K", "direct", "up"), Row(" 10-k/a ", "direct", "flaky"),
     Row("10-K", "folder", "notable"), Row("10-K", "direct", "empty"),
     Row("8-K", "direct", "up")}

\* One run over rows whose fetch fails in every way the fetcher knows, with a
\* checkpoint store whose writes can fail.
FailRows ==
    {Row("10-K", "direct", "timeout"), Row("10-K", "folder", "badpage"),
     Row("10-K", "folder", "down"), Row("10-K", "short", "up"),
     Row("10-K", "missing", "up"), Row("10-K", "direct", "up")}

FailArgs ==
    [retry_limit : 1..MaxRetryLimit,
     checkpoint_every : {1},
     checkpoint_save_every : 1..MaxSaveEvery,
     max_rowgroups : {0},
     max_filings : {0, 2},
     skip_if_exists : {FALSE},
     checkpoint_path : {LocalPath}]

InitFail == InitWith(FailArgs, InputsWith(FailRows, 1, MaxRows), TRUE)

SpecFail == InitFail /\ [][NextRun]_vars

\* One run over an input that can lack a column. A row of an input without
\* the Form Type column has no form type.
SchemaRows ==
    {Row("10-K", "direct", "up"), Row(" 10-k/a ", "direct", "down"),
     Row("8-K", "direct", "up")}

NoFormRows == {Row("None", "direct", "up"), Row("None", "direct", "down")}

SchemaColumns == {AllColumns, {"Filename"}, {"Form Type"}}

SchemaArgs ==
    [retry_limit : {1},
     checkpoint_every : 1..MaxCheckpointEvery,
     checkpoint_save_every : {1},
     max_rowgroups : {0},
     max_filings : {0, 2},
     skip_if_exists : {FALSE},
     checkpoint_path : {LocalPath}]

InitSchema ==
    /\ args \in SchemaArgs
    /\ columns \in SchemaColumns
    /\ input \in IF "Form Type" \in columns THEN InputsOver(SchemaRows)
                 ELSE InputsOver(NoFormRows)
    /\ faulty = FALSE
    /\ pc = "start"
    /\ rg = 0 /\ i = 0
    /\ out_part = 0 /\ ok_in_part = 0 /\ total_seen = 0 /\ total_ok = 0
    /\ InitRest
    /\ JobIdle

SpecSchema == InitSchema /\ [][NextRun]_vars

\* One row, given by its Filename, and the calls of the fetcher for it.
UrlFilenames ==
    {<<"e", "/", "1", "/", "a", ".", "t", "x", "t">>,
     <<"e", "/", "1", "/", "a", ".", "T", "X", "T">>,
     <<"/", "e", "/", "1", "/", "a", ".", "h", "t", "m">>,
     <<" ", "e", "/", "1", "/", "a", ".", "h", "t", "m", "l">>,
     <<"e", "/", "1", "/", "a", " ", "b", ".", "t", "x", "t">>,
     <<"e", "/", "1", "/", "a", ".", "t", "x", "t", " ">>,
     <<"e", "/", "d", "/", "1", "/", "2", "/", "a", ".", "k">>,
     <<"e", "/", "a", ".", "k">>,
     <<" ", " ">>,
     <<"e", "/", "1", "/", "a", ".", "t", "x", "t", "x">>}

UrlSites == {"up", "down", "flaky", "timeout", "empty"}

\* The row of the input with a Filename and a site behind it.
FileRow(form, f, site) ==
    [form |-> form, layout |-> LayoutOf(f), site |-> site, filename |-> f]

InitUrl ==
    /\ args = [retry_limit |-> MaxRetryLimit, checkpoint_every |-> 1,
               checkpoint_save_every |-> 1, max_rowgroups |-> 0, max_filings |-> 0,
               skip_if_exists |-> FALSE, checkpoint_path |-> LocalPath]
    /\ \E f \in UrlFilenames, site \in UrlSites : input = <<<<FileRow("10-K", f, site)>>>>
    /\ columns = AllColumns
    /\ faulty = FALSE
    /\ pc = "call"
    /\ rg = 0 /\ i = 0
    /\ out_part = 0 /\ ok_in_part = 0 /\ total_seen = 0 /\ total_ok = 0
    /\ InitRest
    /\ JobIdle

\* One call of extract_filing_html_directly for the row, with the URL of the
\* direct-document branch written out.
FetchCall ==
    /\ pc = "call"
    /\ Len(callLog) < args.retry_limit
    /\ LET row == input[1][1]
           res == extract_filing_html_directly(row, Len(callLog) + 1)
       IN  /\ last' = IF res.url = "filing_url" /\ row.layout = "direct"
                       THEN [res EXCEPT !.url = DirectUrl(row.filename)]
                       ELSE res
           /\ callLog' = Append(callLog, [status |-> res.status,
                                           content |-> Truthy(res.html)])
    /\ lastStep' = "FetchCall"
    /\ UNCHANGED <<jobVars, cfgVars, diskVars, pc, posVars, cntVars, buffer, ret,
                   crashVars, attempted, processed, delayOwed, saveVars>>

NextUrl == FetchCall

SpecUrl == InitUrl /\ [][NextUrl]_vars

\* A fresh run (no checkpoint) into a destination that can hold parts of an
\* earlier job. A part of the earlier job holds a record of a row that is not
\* of this input.
OldPart ==
    <<[row |-> <<MaxRowGroups, 0>>, status |-> "Success",
       filing_url |-> "filing_url", filing_text |-> "html"]>>

FreshRows == {Row("10-K", "direct", "up"), Row("10-K", "direct", "down")}

FreshArgs ==
    [retry_limit : {1},
     checkpoint_every : 1..MaxCheckpointEvery,
     checkpoint_save_every : {1},
     max_rowgroups : {0},
     max_filings : {0, 2},
     skip_if_exists : BOOLEAN,
     checkpoint_path : {LocalPath}]

InitFresh ==
    /\ args \in FreshArgs
    /\ input \in InputsOver(FreshRows)
    /\ columns = AllColumns
    /\ faulty = FALSE
    /\ pc = "start"
    /\ rg = 0 /\ i = 0
    /\ out_part = 0 /\ ok_in_part = 0 /\ total_seen = 0 /\ total_ok = 0
    /\ ckptFile = NoFile
    /\ parts \in {<<>>, (0 :> OldPart), (0 :> OldPart) @@ (1 :> OldPart)}
    /\ last = NoResult
    /\ ret = "none"
    /\ buffer = <<>>
    /\ processed_since_ckpt = 0
    /\ start_rg = 0 /\ start_i = 0
    /\ current_rowgroup = 0 /\ current_row_index = 0
    /\ run = 1
    /\ lastStep = "Init"
    /\ callLog = <<>>
    /\ attempted = {} /\ processed = {}
    /\ prevProcessed = {} /\ flushedAtCrash = {}
    /\ crashPoint = "none"
    /\ delayOwed = FALSE
    /\ lastSaved = <<>>
    /\ lastWrite = "none"
    /\ saveFailed = FALSE
    /\ JobIdle

SpecFresh == InitFresh /\ [][NextRun]_vars

RunArgs ==
    [retry_limit : 0..MaxRetryLimit,
     checkpoint_every : 1..MaxCheckpointEvery,
     checkpoint_save_every : 1..MaxSaveEvery,
     max_rowgroups : {0},
     max_filings : {0, 2},
     skip_if_exists : {FALSE},
     checkpoint_path : {LocalPath}]

InitRun == InitWith(RunArgs, InputsOver(RunRows), TRUE)

SpecRun == InitRun /\ [][NextRun]_vars

\* The checkpoint store alone: one save of a drawn state, then the load of the
\* process started next, with a store whose writes succeed and with one whose
\* writes can fail.
CounterValues == {0, 7, 12}

CkptArgs ==
    [retry_limit : {1},
     checkpoint_every : {1},
     checkpoint_save_every : {1},
     max_rowgroups : {0},
     max_filings : {0},
     skip_if_exists : {FALSE},
     checkpoint_path : {LocalPath, GcsPath, GcsUpperPath}]

InitCkpt ==
    /\ args \in CkptArgs
    /\ input = <<>>
    /\ columns = AllColumns
    /\ faulty \in BOOLEAN
    /\ pc = "persist"
    /\ rg \in CounterValues /\ i \in CounterValues
    /\ out_part \in CounterValues
    /\ total_seen \in CounterValues
    /\ total_ok \in {n \in CounterValues : n <= total_seen}
    /\ ok_in_part \in {n \in CounterValues : n <= total_ok}
    /\ InitRest
    /\ JobIdle

NextCkpt == PersistCall \/ Start

SpecCkpt == InitCkpt /\ [][NextCkpt]_vars

\* ======================================================= quarter-merge job
\* ------------------------------------------------------------- input files
\* The names the listing can hold, in the order sorted() gives them.
JobFileSeq == <<"A", "B", "C", "D">>
JobFiles == {JobFileSeq[k] : k \in 1..Len(JobFileSeq)}

\* What safe_read_parquet_to_df finds in an input file: whether the required
\* columns are there, and the quarter and year cells of its rows.
FileShape(f) ==
    CASE f = "A" -> [columns_ok |-> TRUE,
                     rows |-> <<[quarter |-> "Q1", year |-> "2020"]>>]
      [] f = "B" -> [columns_ok |-> TRUE,
                     rows |-> <<[quarter |-> " quarter 2", year |-> "2020"],
                                [quarter |-> "q1", year |-> "2020"],
                                [quarter |-> "5", year |-> "2020"],
                                [quarter |-> "3", year |-> "n/a"]>>]
      [] f = "D" -> [columns_ok |-> TRUE,
                     rows |-> <<[quarter |-> "5", year |-> "2020"],
                                [quarter |-> "q3", year |-> "n/a"]>>]
      [] OTHER -> [columns_ok |-> FALSE, rows |-> <<>>]

\* str(q).strip().lower(), "quarter" and blanks removed, then the lookup.
normalize_quarter(q) ==
    CASE q \in {"1", "q1", "Q1", " quarter 1"} -> "q1"
      [] q \in {"2", "q2", "Q2", " quarter 2"} -> "q2"
      [] q \in {"3", "q3", "Q3", " quarter 3"} -> "q3"
      [] q \in {"4", "q4", "Q4", " quarter 4"} -> "q4"
      [] OTHER -> ""

\* pd.to_numeric(errors="coerce"): the number, or NaN.
ToNumeric(y) ==
    CASE y = "2020" -> [nan |-> FALSE, val |-> 2020]
      [] y = "2021" -> [nan |-> FALSE, val |-> 2021]
      [] OTHER -> [nan |-> TRUE, val |-> 0]

\* The (year, quarter) keys in the order groupby sorts them.
KeySeq == << <<2020, "q1">>, <<2020, "q2">>, <<2020, "q3">>, <<2020, "q4">>,
             <<2021, "q1">>, <<2021, "q2">>, <<2021, "q3">>, <<2021, "q4">> >>
Keys == {KeySeq[k] : k \in 1..Len(KeySeq)}

\* The rows of a file that process_batch keeps, each with its group key.
RowsOf(f) ==
    LET sh == FileShape(f)
        all == [k \in 1..Len(sh.rows) |->
                  [src |-> f, idx |-> k,
                   valid |-> /\ normalize_quarter(sh.rows[k].quarter) # ""
                             /\ ~ToNumeric(sh.rows[k].year).nan,
                   key |-> <<ToNumeric(sh.rows[k].year).val,
                             normalize_quarter(sh.rows[k].quarter)>>]]
    IN  IF ~sh.columns_ok THEN <<>>
        ELSE SelectSeq(all, LAMBDA r : r.valid)

RECURSIVE AllRows(_)
AllRows(files) ==
    IF files = <<>> THEN <<>> ELSE RowsOf(Head(files)) \o AllRows(Tail(files))

\* The keys of grouped in insertion order: file by file, sorted within a file.
RECURSIVE KeyOrder(_, _)
KeyOrder(files, seen) ==
    IF files = <<>> THEN <<>>
    ELSE LET rows == RowsOf(Head(files))
             fresh == SelectSeq(KeySeq, LAMBDA k :
                         /\ k \notin seen
                         /\ \E j \in 1..Len(rows) : rows[j].key = k)
         IN  fresh \o KeyOrder(Tail(files),
                               seen \cup {fresh[j] : j \in 1..Len(fresh)})

\* process_batch: the groups of a batch, each with its rows concatenated.
process_batch(input_files) ==
    LET order == KeyOrder(input_files, {})
    IN  [j \in 1..Len(order) |->
           [key |-> order[j],
            rows |-> SelectSeq(AllRows(input_files), LAMBDA r : r.key = order[j])]]

\* list_gcs_parquets: the objects under the prefix, sorted.
list_gcs_parquets(files) == SelectSeq(JobFileSeq, LAMBDA f : f \in files)

\* A read_manifest that finds nothing processed.
read_manifest_Empty(obj) == {}

\* read_manifest: the input_file of every line; the empty set when the object
\* cannot be read.
read_manifest(obj) ==
    IF ~obj.exists THEN {}
    ELSE {obj.lines[k].input_file : k \in 1..Len(obj.lines)}

\* Manifest records for the files of a batch that gave rows only.
ManifestRecords_OnlyMerged(files, now) ==
    LET merged == SelectSeq(files, LAMBDA f : RowsOf(f) # <<>>)
    IN  [k \in 1..Len(merged) |-> [input_file |-> merged[k], processed_at |-> now]]

\* The manifest records main builds for a batch.
ManifestRecords(files, now) ==
    [k \in 1..Len(files) |-> [input_file |-> files[k], processed_at |-> now]]

\* ------------------------------------------------------------------ main
\* An object with the given lines (rows of a quarter file, lines of the
\* manifest).
ObjectOf(lines) == [exists |-> TRUE, lines |-> lines]

\* The first --batch-files of the new files: new_files[i:i + batch_files].
BatchOf(files, n) == SubSeq(files, 1, IF Len(files) < n THEN Len(files) ELSE n)
RestOf(files, n) == SubSeq(files, (IF Len(files) < n THEN Len(files) ELSE n) + 1, Len(files))

\* Where main goes when a pass has nothing more to do.
AfterPass == IF jobArgs.sleep_seconds > 0 THEN "pass" ELSE "release"

\* main is started.
JobStart(p) ==
    /\ jpc[p] \in {"idle", "done", "failed", "lock_failed", "killed"}
    /\ jobRuns < MaxJobRuns
    /\ jobRuns' = jobRuns + 1
    /\ jpc' = [jpc EXCEPT ![p] = "acquire"]
    /\ handled' = [handled EXCEPT ![p] = {}]
    /\ UNCHANGED <<fetchVars, procs, jobArgs, inputFiles, jobStore, new_files, batch,
                   grouped, acquired>>

\* acquire_local_lock, the test: os.path.exists(lock_path), and the raise
\* that ends main before its try.
AcquireTest(p) ==
    /\ jpc[p] = "acquire"
    /\ jpc' = [jpc EXCEPT ![p] = IF lockFile THEN "lock_failed" ELSE "lock_open"]
    /\ UNCHANGED <<fetchVars, procs, jobArgs, inputFiles, jobStore, new_files, batch,
                   grouped, acquired, jobRuns, handled>>

\* acquire_local_lock, the write: open(lock_path, "w").
AcquireWrite(p) ==
    /\ jpc[p] = "lock_open"
    /\ lockFile' = TRUE
    /\ lockCreator' = IF lockFile THEN lockCreator ELSE p
    /\ acquired' = [acquired EXCEPT ![p] = TRUE]
    /\ jpc' = [jpc EXCEPT ![p] = "pass"]
    /\ UNCHANGED <<fetchVars, procs, jobArgs, inputFiles, manifestObj, manifestTmp,
                   quarterObj, quarterTmp, new_files, batch, grouped, jobRuns, handled>>

\* The head of a pass: read_manifest, list_gcs_parquets, new_files.
PassHead(p) ==
    /\ jpc[p] = "pass"
    /\ LET processed_files == read_manifest(manifestObj)
           all_files == list_gcs_parquets(inputFiles)
           new == SelectSeq(all_files, LAMBDA f : f \notin processed_files)
       IN  /\ new_files' = [new_files EXCEPT ![p] = new]
           /\ jpc' = [jpc EXCEPT ![p] = IF new = <<>> THEN AfterPass ELSE "batch"]
    /\ UNCHANGED <<fetchVars, procs, jobArgs, inputFiles, jobStore, batch, grouped,
                   acquired, jobRuns, handled>>

\* The head of the batch loop: the next batch and process_batch on it.
BatchHead(p) ==
    /\ jpc[p] = "batch"
    /\ IF new_files[p] = <<>>
       THEN /\ jpc' = [jpc EXCEPT ![p] = AfterPass]
            /\ UNCHANGED <<new_files, batch, grouped, handled>>
       ELSE LET b == BatchOf(new_files[p], jobArgs.batch_files)
            IN  /\ batch' = [batch EXCEPT ![p] = b]
                /\ new_files' = [new_files EXCEPT ![p] =
                                    RestOf(new_files[p], jobArgs.batch_files)]
                /\ grouped' = [grouped EXCEPT ![p] = process_batch(b)]
                /\ handled' = [handled EXCEPT ![p] =
                                  handled[p] \cup {b[k] : k \in 1..Len(b)}]
                /\ jpc' = [jpc EXCEPT ![p] = "merge"]
    /\ UNCHANGED <<fetchVars, procs, jobArgs, inputFiles, jobStore, acquired, jobRuns>>

\* merge_into_quarter_files for the next group, up to the write of the .tmp
\* object in safe_write_df_to_parquet: old rows, if any, then the new ones.
MergeTmp(p) ==
    /\ jpc[p] = "merge"
    /\ IF grouped[p] = <<>>
       THEN /\ jpc' = [jpc EXCEPT ![p] = "manifest"]
            /\ UNCHANGED quarterTmp
       ELSE LET g == Head(grouped[p])
                old == quarterObj[g.key]
                merged == IF old.exists THEN old.lines \o g.rows ELSE g.rows
            IN  /\ quarterTmp' = [quarterTmp EXCEPT ![g.key] = ObjectOf(merged)]
                /\ jpc' = [jpc EXCEPT ![p] = "merge_delete"]
    /\ UNCHANGED <<fetchVars, procs, jobArgs, inputFiles, lockFile, lockCreator, manifestObj,
                   manifestTmp, quarterObj, new_files, batch, grouped, acquired,
                   jobRuns, handled>>

\* safe_write_df_to_parquet: get_file_info and delete_file of the target.
MergeDelete(p) ==
    /\ jpc[p] = "merge_delete"
    /\ LET g == Head(grouped[p])
       IN  quarterObj' = [quarterObj EXCEPT ![g.key] = NoObject]
    /\ jpc' = [jpc EXCEPT ![p] = "merge_move"]
    /\ UNCHANGED <<fetchVars, procs, jobArgs, inputFiles, lockFile, lockCreator, manifestObj,
                   manifestTmp, quarterTmp, new_files, batch, grouped, acquired,
                   jobRuns, handled>>

\* safe_write_df_to_parquet: fs.move of the .tmp object onto the target; it
\* raises when the .tmp object is gone, and main leaves through its finally.
MergeMove(p) ==
    /\ jpc[p] = "merge_move"
    /\ LET g == Head(grouped[p])
       IN  IF quarterTmp[g.key].exists
           THEN /\ quarterObj' = [quarterObj EXCEPT ![g.key] = quarterTmp[g.key]]
                /\ quarterTmp' = [quarterTmp EXCEPT ![g.key] = NoObject]
                /\ grouped' = [grouped EXCEPT ![p] = Tail(grouped[p])]
                /\ jpc' = [jpc EXCEPT ![p] = "merge"]
           ELSE /\ jpc' = [jpc EXCEPT ![p] = "raise"]
                /\ UNCHANGED <<quarterObj, quarterTmp, grouped>>
    /\ UNCHANGED <<fetchVars, procs, jobArgs, inputFiles, lockFile, lockCreator, manifestObj,
                   manifestTmp, new_files, batch, acquired, jobRuns, handled>>

\* append_manifest up to the write of the .tmp object: the lines there are,
\* none when the manifest cannot be read, then one line per file of the batch.
ManifestTmp(p) ==
    /\ jpc[p] = "manifest"
    /\ \E now \in 0..MaxClock :
          LET existing_lines == IF manifestObj.exists THEN manifestObj.lines ELSE <<>>
          IN  manifestTmp' = ObjectOf(existing_lines \o ManifestRecords(batch[p], now))
    /\ jpc' = [jpc EXCEPT ![p] = "manifest_delete"]
    /\ UNCHANGED <<fetchVars, procs, jobArgs, inputFiles, lockFile, lockCreator, manifestObj,
                   quarterObj, quarterTmp, new_files, batch, grouped, acquired,
                   jobRuns, handled>>

\* append_manifest: delete_file of the manifest if it is there.
ManifestDelete(p) ==
    /\ jpc[p] = "manifest_delete"
    /\ manifestObj' = NoObject
    /\ jpc' = [jpc EXCEPT ![p] = "manifest_move"]
    /\ UNCHANGED <<fetchVars, procs, jobArgs, inputFiles, lockFile, lockCreator, manifestTmp,
                   quarterObj, quarterTmp, new_files, batch, grouped, acquired,
                   jobRuns, handled>>

\* append_manifest: fs.move of the .tmp object onto the manifest.
ManifestMove(p) ==
    /\ jpc[p] = "manifest_move"
    /\ IF manifestTmp.exists
       THEN /\ manifestObj' = manifestTmp
            /\ manifestTmp' = NoObject
            /\ jpc' = [jpc EXCEPT ![p] = "batch"]
       ELSE /\ jpc' = [jpc EXCEPT ![p] = "raise"]
            /\ UNCHANGED <<manifestObj, manifestTmp>>
    /\ UNCHANGED <<fetchVars, procs, jobArgs, inputFiles, lockFile, lockCreator, quarterObj,
                   quarterTmp, new_files, batch, grouped, acquired, jobRuns, handled>>

\* release_local_lock: os.remove(lock_path), FileNotFoundError passed over;
\* the lock file is not there afterwards.
release_local_lock(lock) == FALSE

\* The finally of main: release_local_lock, after the loop ended or after an
\* exception inside the try.
Release(p) ==
    /\ jpc[p] \in {"release", "raise"}
    /\ lockFile' = release_local_lock(lockFile)
    /\ lockCreator' = IF release_local_lock(lockFile) THEN lockCreator ELSE 0
    /\ acquired' = [acquired EXCEPT ![p] = FALSE]
    /\ jpc' = [jpc EXCEPT ![p] = IF jpc[p] = "raise" THEN "failed" ELSE "done"]
    /\ UNCHANGED <<fetchVars, procs, jobArgs, inputFiles, manifestObj, manifestTmp,
                   quarterObj, quarterTmp, new_files, batch, grouped, jobRuns, handled>>

\* A new object appears under the input prefix.
AddFile ==
    /\ \E f \in JobFiles \ inputFiles : inputFiles' = inputFiles \cup {f}
    /\ UNCHANGED <<fetchVars, procs, jobArgs, jobStore, jobLocal, jobRuns, handled>>

\* The process of an instance is killed inside main's try: its memory is
\* gone, no finally runs, the stores stay as they are.
Kill(p) ==
    /\ jpc[p] \in {"pass", "batch", "merge", "merge_delete", "merge_move",
                   "manifest", "manifest_delete", "manifest_move"}
    /\ jpc' = [jpc EXCEPT ![p] = "killed"]
    /\ new_files' = [new_files EXCEPT ![p] = <<>>]
    /\ batch' = [batch EXCEPT ![p] = <<>>]
    /\ grouped' = [grouped EXCEPT ![p] = <<>>]
    /\ acquired' = [acquired EXCEPT ![p] = FALSE]
    /\ UNCHANGED <<fetchVars, procs, jobArgs, inputFiles, jobStore, jobRuns, handled>>

\* The operator removes the lock file a killed instance left behind.
StaleLockRemoved ==
    /\ lockFile
    /\ \A p \in procs : jpc[p] \in {"idle", "done", "failed", "lock_failed", "killed"}
    /\ lockFile' = FALSE
    /\ lockCreator' = 0
    /\ UNCHANGED <<fetchVars, procs, jobArgs, inputFiles, manifestObj, manifestTmp,
                   quarterObj, quarterTmp, jobLocal, jobRuns, handled>>

\* One step of an instance of the job.
JobStep ==
    \/ \E p \in procs : JobStart(p)
    \/ \E p \in procs : AcquireTest(p)
    \/ \E p \in procs : AcquireWrite(p)
    \/ \E p \in procs : PassHead(p)
    \/ \E p \in procs : BatchHead(p)
    \/ \E p \in procs : MergeTmp(p)
    \/ \E p \in procs : MergeDelete(p)
    \/ \E p \in procs : MergeMove(p)
    \/ \E p \in procs : ManifestTmp(p)
    \/ \E p \in procs : ManifestDelete(p)
    \/ \E p \in procs : ManifestMove(p)
    \/ \E p \in procs : Release(p)

\* ----------------------------------------------------------- specifications
\* The fetcher is not there.
FetchIdle ==
    /\ args = [retry_limit |-> 1, checkpoint_every |-> 1, checkpoint_save_every |-> 1,
               max_rowgroups |-> 0, max_filings |-> 0, skip_if_exists |-> FALSE,
               checkpoint_path |-> LocalPath]
    /\ input = <<>>
    /\ columns = AllColumns
    /\ faulty = FALSE
    /\ pc = "idle"
    /\ rg = 0 /\ i = 0
    /\ out_part = 0 /\ ok_in_part = 0 /\ total_seen = 0 /\ total_ok = 0
    /\ InitRest

\* The job before its first start: some input files, nothing written yet.
InitJob(procSet, sleeps, fileSets) ==
    /\ FetchIdle
    /\ procs = procSet
    /\ jobArgs \in [batch_files : 1..MaxBatchFiles, sleep_seconds : sleeps]
    /\ inputFiles \in fileSets
    /\ lockFile = FALSE
    /\ lockCreator = 0
    /\ manifestObj = NoObject
    /\ manifestTmp = NoObject
    /\ quarterObj = [k \in Keys |-> NoObject]
    /\ quarterTmp = [k \in Keys |-> NoObject]
    /\ jpc = [p \in procSet |-> "idle"]
    /\ new_files = [p \in procSet |-> <<>>]
    /\ batch = [p \in procSet |-> <<>>]
    /\ grouped = [p \in procSet |-> <<>>]
    /\ acquired = [p \in procSet |-> FALSE]
    /\ handled = [p \in procSet |-> {}]
    /\ jobRuns = 0

\* Normal operation: one instance, run after run, files arriving.
InitMerge == InitJob({1}, {0, 1}, SUBSET JobFiles)

NextMerge == JobStep \/ AddFile

SpecMerge == InitMerge /\ [][NextMerge]_vars

\* One instance that can be killed at any step and is started again.
NextMergeCrash ==
    \/ JobStep
    \/ \E p \in procs : Kill(p)
    \/ StaleLockRemoved
    \/ AddFile

SpecMergeCrash == InitMerge /\ [][NextMergeCrash]_vars

\* Two instances started with the same lock path, on files that are there.
InitMergeTwo == InitJob({1, 2}, {0}, {{"A"}, {"A", "B"}, {"B", "C"}})

NextMergeTwo == JobStep

SpecMergeTwo == InitMergeTwo /\ [][NextMergeTwo]_vars

\* ------------------------------------------------------------------ claims
\* The result of the retry loop for a row, computed call by call.
RECURSIVE RetryResult(_, _, _)
RetryResult(row, call, limit) ==
    IF limit = 0 THEN NoResult
    ELSE LET res == extract_filing_html_directly(row, call)
         IN  IF Truthy(res.html) \/ call >= limit THEN res
             ELSE RetryResult(row, call + 1, limit)

\* The Fetch Result one uninterrupted run records for a candidate row.
ExpectedRecord(id) ==
    LET res == RetryResult(Candidates(id[1])[id[2] + 1], 1, args.retry_limit)
    IN  IF Truthy(res.html)
        THEN [row |-> id, status |-> "Success", filing_url |-> res.url,
              filing_text |-> res.html]
        ELSE [row |-> id, status |-> res.status, filing_url |-> res.url,
              filing_text |-> "None"]

RECURSIVE BagOfSeq(_)
BagOfSeq(s) ==
    IF s = <<>> THEN EmptyBag ELSE BagOfSeq(Tail(s)) (+) SetToBag({Head(s)})

\* The multiset of the records of the part files with the given indexes.
RECURSIVE BagOfParts(_)
BagOfParts(idxs) ==
    IF idxs = {} THEN EmptyBag
    ELSE LET k == CHOOSE x \in idxs : TRUE
         IN  BagOfSeq(parts[k]) (+) BagOfParts(idxs \ {k})

\* The run has no test cap and writes every part.
WholeRun ==
    args.max_rowgroups = 0 /\ args.max_filings = 0 /\ ~args.skip_if_exists

\* What one uninterrupted run of the whole input leaves in its parts.
UninterruptedBag == SetToBag({ExpectedRecord(id) : id \in AllCandidates})

\* C1: a run interrupted right after a flush (part written, checkpoint saved)
\* and resumed to completion leaves, over the parts of both runs, exactly the
\* multiset of Fetch Results of one uninterrupted run.
C1_ResumeAfterFlushSameResults ==
    (pc = "done" /\ run = 2 /\ crashPoint = "after_flush" /\ WholeRun)
        => BagOfParts(DOMAIN parts) = UninterruptedBag

\* C2: after a crash at any point and a resume to completion, every candidate
\* row of the input has its Fetch Result in some written part.
C2_NoRowLostOnResume ==
    (pc = "done" /\ run >= 2 /\ WholeRun) => AllCandidates \subseteq RowsInParts

\* C3: the resumed run never calls the fetcher for a row whose Fetch Result
\* was in a written part when the run crashed (stated for the crashes that do
\* not fall between the write of a part and the checkpoint save after it).
C3_FlushedRowsNotRefetched ==
    (run >= 2 /\ crashPoint # "mid_flush") => attempted \cap flushedAtCrash = {}

C5_RetryLoopBounded ==
    /\ Len(callLog) <= args.retry_limit
    /\ \A k \in 1..(Len(callLog) - 1) : ~callLog[k].content
    /\ lastStep = "RecordFailure" =>
          /\ Len(callLog) = args.retry_limit
          /\ \A k \in 1..Len(callLog) : ~callLog[k].content
    /\ lastStep = "RecordSuccess" =>
          /\ callLog # <<>>
          /\ callLog[Len(callLog)].content
    /\ pc = "fetch" => CurId \notin processed

\* C5 witness: a row was recorded as failed after a budget of two or more
\* calls, all of them made.
C5_Witness ==
    /\ lastStep = "RecordFailure"
    /\ args.retry_limit >= 2
    /\ Len(callLog) = args.retry_limit

\* C6: once a call for a row ended in a structural failure (no document table,
\* no document link), no further call is made for that row.
C6_StructuralFailureNotRetried ==
    \A k \in 1..(Len(callLog) - 1) : callLog[k].status \notin StructuralStatuses

\* C7: no row's first request is issued while the sleep of args.delay is still
\* owed for the row attempted before it.
C7_DelayAfterEveryAttemptedRow ==
    (pc = "fetch" /\ callLog = <<>> /\ args.retry_limit > 0) => ~delayOwed

\* ---- checkpoint store (SpecCkpt)
\* The counters main holds are those of its zero state.
ZeroState ==
    /\ start_rg = 0 /\ start_i = 0
    /\ out_part = 0 /\ ok_in_part = 0 /\ total_seen = 0 /\ total_ok = 0

\* C8: the load at the start of a run never raises, and with no checkpoint
\* object or with content that cannot be deserialized the run starts from the
\* zero state.
C8_LoadNeverRaises ==
    lastStep = "Start" =>
        /\ pc # "raised"
        /\ (~ckptFile.exists \/ ~ckptFile.closed) => ZeroState

\* The counter fields of a loaded dict, in the order persist_ckpt builds them.
CounterFields(dict) ==
    [k \in 1..6 |-> <<lastSaved[k][1], DictGet(dict, lastSaved[k][1], 0 - 1)>>]

\* C9: with a store whose writes succeed, load_checkpoint called right after
\* save_checkpoint(path, s) returns a dict whose six counter fields equal
\* those of s.
C9_SaveThenLoadRoundTrip ==
    (lastStep = "PersistCall" /\ ~faulty) =>
        LET ld == load_checkpoint(args.checkpoint_path, ckptFile)
        IN  /\ ~ld.raised
            /\ ~ld.none
            /\ CounterFields(ld.dict) = lastSaved

\* ---- failing checkpoint writes (SpecRun)
\* The candidate rows in the order main visits them.
RECURSIVE IdsFrom(_, _)
IdsFrom(g, k) ==
    IF g >= num_row_groups THEN <<>>
    ELSE IF k >= Len(Candidates(g)) THEN IdsFrom(g + 1, 0)
    ELSE <<(<<g, k>>)>> \o IdsFrom(g, k + 1)

\* The parts of a run whose checkpoint writes all succeed: a part is closed
\* by the success that brings its count to checkpoint_every, and the rest is
\* the last part.
RECURSIVE ChunkParts(_, _, _, _)
ChunkParts(ids, buf, ok, acc) ==
    IF ids = <<>>
    THEN IF buf = <<>> THEN acc ELSE Append(acc, buf)
    ELSE LET rec == ExpectedRecord(Head(ids))
             succ == rec.status = "Success"
             ok2 == IF succ THEN ok + 1 ELSE ok
         IN  IF succ /\ ok2 >= args.checkpoint_every
             THEN ChunkParts(Tail(ids), <<>>, 0, Append(acc, Append(buf, rec)))
             ELSE ChunkParts(Tail(ids), Append(buf, rec), ok2, acc)

ExpectedParts ==
    LET acc == ChunkParts(IdsFrom(0, 0), <<>>, 0, <<>>)
    IN  [k \in 0..(Len(acc) - 1) |-> acc[k + 1]]

\* C10: a checkpoint write that fails never ends the run, and a run without
\* the --max-filings cap ends with the rows fetched, the parts written and the
\* counters of a run whose writes all succeeded.
C10_FailedSaveDoesNotAbort ==
    /\ pc # "raised"
    /\ (pc = "done" /\ args.max_filings = 0) =>
          /\ parts = ExpectedParts
          /\ processed = AllCandidates
          /\ attempted = IF args.retry_limit > 0 THEN AllCandidates ELSE {}
          /\ total_seen = Cardinality(AllCandidates)
          /\ total_ok = Cardinality({id \in AllCandidates :
                                        ExpectedRecord(id).status = "Success"})
          /\ buffer = <<>>

\* C10 witness: a run with two or more rows ended, a checkpoint write of it
\* failed, and parts were written.
C10_Witness ==
    /\ pc = "done"
    /\ args.max_filings = 0
    /\ saveFailed
    /\ Cardinality(AllCandidates) >= 2
    /\ parts # <<>>

\* ---- output parts (Spec)
\* The number of records of a part with the success status.
SuccessesIn(part) ==
    Cardinality({j \in 1..Len(part) : part[j].status = "Success"})

\* C11: every written part holds at most checkpoint_every records with the
\* success status, in the first run and in the run resumed from a checkpoint.
C11_PartWithinFlushThreshold ==
    \A k \in DOMAIN parts : SuccessesIn(parts[k]) <= args.checkpoint_every

\* C11 witness: the resumed run has written a part that holds checkpoint_every
\* (two or more) successes and a failure record on top of them.
C11_Witness ==
    /\ run >= 2
    /\ lastStep = "FlushPart"
    /\ args.checkpoint_every >= 2
    /\ \E k \in DOMAIN parts :
          /\ k = out_part - 1
          /\ SuccessesIn(parts[k]) = args.checkpoint_every
          /\ Len(parts[k]) > args.checkpoint_every

\* C12: within one run out_part never decreases and moves only in flush_part
\* with a non-empty buffer, by exactly one (the checkpoint restore at the start
\* of the run sets it once); a part file is written only at index out_part,
\* and out_part is one higher afterwards, so no two flushes of a run target
\* the same part.
C12_PartIndexNeverReused ==
    [][lastStep' # "Crash" =>
          /\ out_part' >= out_part
          /\ out_part' # out_part =>
                \/ pc = "start"
                \/ pc = "flush" /\ buffer # <<>> /\ out_part' = out_part + 1
          /\ parts' # parts =>
                /\ out_part' = out_part + 1
                /\ DOMAIN parts' = DOMAIN parts \cup {out_part}
                /\ \A k \in DOMAIN parts : k # out_part => parts'[k] = parts[k]]_vars

\* C12 witness: one run has flushed twice, to the parts 0 and 1.
C12_Witness ==
    /\ run = 1
    /\ lastStep = "FlushPart"
    /\ out_part = 2
    /\ DOMAIN parts = {0, 1}

\* C13 as stated: flush_part with a non-empty buffer writes the buffer as one
\* part and leaves the buffer empty, out_part one higher and ok_in_part 0;
\* with an empty buffer it writes nothing and leaves out_part, ok_in_part and
\* the checkpoint as they were.
C13_FlushWritesOnePart ==
    [][(pc = "flush" /\ pc' # "start") =>
          IF buffer # <<>>
          THEN /\ parts' = (out_part :> buffer) @@ parts
               /\ buffer' = <<>>
               /\ out_part' = out_part + 1
               /\ ok_in_part' = 0
          ELSE UNCHANGED <<parts, out_part, ok_in_part, ckptFile>>]_vars

\* C13 amended: as above, except that with --skip-if-exists and the target
\* present nothing is written: the buffer is dropped, out_part is one higher
\* and ok_in_part is 0 all the same.
C13_FlushFrame ==
    [][(pc = "flush" /\ pc' # "start") =>
          IF buffer # <<>>
          THEN /\ parts' = IF args.skip_if_exists /\ out_part \in DOMAIN parts
                           THEN parts
                           ELSE (out_part :> buffer) @@ parts
               /\ buffer' = <<>>
               /\ out_part' = out_part + 1
               /\ ok_in_part' = 0
          ELSE UNCHANGED <<parts, out_part, ok_in_part, ckptFile>>]_vars

\* C13 witness: a flush with a non-empty buffer found its target present and
\* skipped the write: the buffer is empty, ok_in_part is 0 and out_part is past
\* the part that was left alone.
C13_Witness ==
    /\ lastStep = "FlushPartSkip"
    /\ buffer = <<>>
    /\ ok_in_part = 0
    /\ out_part >= 1
    /\ (out_part - 1) \in DOMAIN parts

\* C14: a flush of a non-empty buffer whose target part exists leaves every
\* part file as it was when --skip-if-exists is set, and writes the buffer to
\* the target when it is not set.
C14_SkipIfExists ==
    [][(pc = "flush" /\ pc' # "start" /\ buffer # <<>> /\ out_part \in DOMAIN parts) =>
          IF args.skip_if_exists
          THEN parts' = parts
          ELSE /\ out_part \in DOMAIN parts'
               /\ parts'[out_part] = buffer]_vars

\* C14 witness: with --skip-if-exists the resumed run skipped a part the
\* crashed run had written, and the part still holds the crashed run's rows.
C14_Witness ==
    /\ lastStep = "FlushPartSkip"
    /\ args.skip_if_exists
    /\ run = 2
    /\ (out_part - 1) \in DOMAIN parts
    /\ {parts[out_part - 1][j].row : j \in 1..Len(parts[out_part - 1])}
          \subseteq flushedAtCrash
    /\ Len(parts[out_part - 1]) >= 2

\* ---- quarter-merge job
\* The files of a sequence of file names.
FilesOf(files) == {files[k] : k \in 1..Len(files)}

\* C15: with one instance and no crash, no input file is in the manifest
\* twice, and the files of a pass (those still to be put into a batch and
\* those of the batch in work) are files the manifest does not hold.
C15_ManifestNoDuplicates ==
    /\ \A j, k \in 1..Len(manifestObj.lines) :
          j # k => manifestObj.lines[j].input_file # manifestObj.lines[k].input_file
    /\ \A p \in procs :
          /\ jpc[p] \in {"batch", "merge", "merge_delete", "merge_move", "manifest"} =>
                FilesOf(new_files[p]) \cap read_manifest(manifestObj) = {}
          /\ jpc[p] \in {"merge", "merge_delete", "merge_move", "manifest"} =>
                FilesOf(batch[p]) \cap read_manifest(manifestObj) = {}

\* C15 witness: the second run found A in the manifest and A and B under the
\* prefix, put only B into a batch, and the manifest now holds A, then B.
C15_Witness ==
    /\ jobRuns = 2
    /\ jpc[1] = "done"
    /\ handled[1] = {"B"}
    /\ inputFiles = {"A", "B"}
    /\ manifestObj.exists
    /\ Len(manifestObj.lines) = 2
    /\ manifestObj.lines[1].input_file = "A"
    /\ manifestObj.lines[2].input_file = "B"

\* C16: of two instances started with the same lock path at most one is past
\* acquire_local_lock at any time, and an instance that found the lock file
\* present has put no file into a batch.
C16_LockMutualExclusion ==
    /\ Cardinality({p \in procs : acquired[p]}) <= 1
    /\ \A p \in procs : jpc[p] = "lock_failed" => handled[p] = {}


\* The object that was at a target before a replace whose .tmp object holds
\* `new`, of which the last `added` lines are the ones the replace adds: none
\* when everything in `new` is added.
PreviousOf(new, added) ==
    IF Len(new.lines) = added THEN NoObject
    ELSE ObjectOf(SubSeq(new.lines, 1, Len(new.lines) - added))

\* C17: at every point where safe_write_df_to_parquet or append_manifest can
\* be interrupted after its .tmp object is written, the target holds the
\* complete previous content or the complete new content, never a missing
\* object where there was one.
C17_ReplaceLeavesCompleteTarget ==
    \A p \in procs :
        /\ jpc[p] \in {"merge_delete", "merge_move"} =>
              LET g == Head(grouped[p])
                  new == quarterTmp[g.key]
              IN  new.exists =>
                     quarterObj[g.key] \in {new, PreviousOf(new, Len(g.rows))}
        /\ jpc[p] \in {"manifest_delete", "manifest_move"} =>
              (manifestTmp.exists =>
                  manifestObj \in {manifestTmp, PreviousOf(manifestTmp, Len(batch[p]))})


\* The status strings of a call that returned no content.
FailureStatuses ==
    {"Missing or invalid Filename", "Filing fetch failed", "Invalid path",
     "Index fetch failed", "No document table found",
     "No primary .htm/.html link found", "Exception"}

\* The rows of the input, whatever their form type.
InputRows == UNION {{input[g][k] : k \in 1..Len(input[g])} : g \in 1..Len(input)}

\* C18: a call of extract_filing_html_directly in which a statement raises
\* returns content None and a failure status; every call without content has
\* a failure status; main never ends by an exception, the record of a failed
\* row is appended and the loop goes on to the next row, so a run without
\* --max-filings ends with a record for every candidate row.
C18_FetcherNeverRaises ==
    /\ \A r \in InputRows : \A call \in 1..MaxRetryLimit :
          LET res == extract_filing_html_directly(r, call)
          IN  /\ Raises(r) => res.html = "None" /\ res.status \in FailureStatuses
              /\ res.html = "None" => res.status \in FailureStatuses
    /\ \A k \in 1..Len(callLog) :
          ~callLog[k].content => callLog[k].status \in FailureStatuses
    /\ pc # "raised"
    /\ lastStep = "RecordFailure" =>
          /\ pc = "row_head"
          /\ buffer # <<>>
          /\ buffer[Len(buffer)].row = <<rg, i - 1>>
          /\ buffer[Len(buffer)].filing_text = "None"
          /\ buffer[Len(buffer)].status \in FailureStatuses
    /\ (pc = "done" /\ args.max_filings = 0) => processed = AllCandidates

\* C18 witness: a run ended in which the first row's call raised inside the
\* fetcher and a later row was fetched with success.
C18_Witness ==
    /\ pc = "done"
    /\ args.max_filings = 0
    /\ input # <<>>
    /\ Len(input[1]) >= 2
    /\ Raises(input[1][1])
    /\ \E k \in DOMAIN parts : \E j \in 1..Len(parts[k]) :
          /\ parts[k][j].row = <<0, 0>>
          /\ parts[k][j].status = "Exception"
    /\ \E k \in DOMAIN parts : \E j \in 1..Len(parts[k]) :
          /\ parts[k][j].row[2] >= 1
          /\ parts[k][j].filing_text # "None"


\* ---- row selection (SpecSchema)
\* The columns the Row Selector requires.
RequiredColumns == {"Form Type", "Filename"}

\* C19: from an input that lacks a required column no row is fetched and no
\* record is produced.
C19_MissingColumnFetchesNothing ==
    ~(RequiredColumns \subseteq columns) =>
        /\ attempted = {}
        /\ processed = {}
        /\ buffer = <<>>
        /\ parts = <<>>


\* The rows of row group g whose form type, trimmed and upper-cased, is in the
\* allowed set.
AllowedRows(g) ==
    SelectSeq(input[g + 1], LAMBDA r : NormalizeForm(r.form) \in TENK_FORMS)

\* The allowed rows of the input, as <<row group, index among the allowed
\* rows of the row group>>.
AllowedIds ==
    UNION {{<<g, k>> : k \in 0..(Len(AllowedRows(g)) - 1)} :
             g \in 0..(num_row_groups - 1)}

\* C20: the row passed to the fetcher is always a row whose form type, trimmed
\* and upper-cased, is in {10-K, 10-K/A}, taken in order from the allowed
\* rows of its row group; no other row is fetched or gets a record, and a run
\* over all row groups without --max-filings gives every allowed row a
\* record.
C20_OnlyAllowedFormsFetched ==
    /\ pc = "fetch" =>
          /\ i < Len(AllowedRows(rg))
          /\ Candidates(rg)[i + 1] = AllowedRows(rg)[i + 1]
          /\ NormalizeForm(CurRow.form) \in TENK_FORMS
    /\ attempted \cup processed \subseteq AllowedIds
    /\ \A k \in DOMAIN parts : \A j \in 1..Len(parts[k]) : parts[k][j].row \in AllowedIds
    /\ (pc = "done" /\ args.max_filings = 0) => processed = AllowedIds


\* ---- the fetcher's URL (SpecUrl)
\* The row the calls are made for.
TheRow == input[1][1]

\* The Filename of the row ends in a document extension, as it is written.
EndsInDocExtension(f) == \E e \in DOC_EXTENSIONS : EndsWith(f, e)

\* C21 as stated: for a Filename that ends in a document extension the URL is
\* the archive root followed by the Filename, and a GET that returns 200 gives
\* the status Success (direct).
C21_DirectUrlIsRootPlusFilename ==
    (lastStep = "FetchCall" /\ EndsInDocExtension(TheRow.filename)
       /\ FirstGetOk(TheRow, Len(callLog)) /\ TheRow.site # "timeout") =>
        /\ last.status = "Success (direct)"
        /\ last.url = ARCHIVES_ROOT \o TheRow.filename

\* The Filename with its spaces taken out.
WithoutSpaces(f) == SelectSeq(f, LAMBDA c : c # " ")

\* C21 amended: the Filename is first freed of spaces and of leading slashes
\* and its extension is tested without regard to case; for such a Filename
\* the URL is the archive root followed by the cleaned Filename, and a GET
\* that returns 200 gives the status Success (direct).
C21_DirectUrlIsRootPlusCleanFilename ==
    LET c == WithoutSpaces(TheRow.filename)
    IN  (lastStep = "FetchCall" /\ TheRow.site # "timeout"
           /\ (\E e \in DOC_EXTENSIONS : EndsWith(Lower(c), e))) =>
            /\ FirstGetOk(TheRow, Len(callLog)) =>
                  /\ last.status = "Success (direct)"
                  /\ last.html = Body(TheRow)
            /\ ~FirstGetOk(TheRow, Len(callLog)) =>
                  /\ last.status = "Filing fetch failed"
                  /\ last.html = "None"
            /\ \E k \in 0..Len(c) :
                  /\ \A j \in 1..k : c[j] = "/"
                  /\ k < Len(c) => c[k + 1] # "/"
                  /\ last.url = ARCHIVES_ROOT \o SubSeq(c, k + 1, Len(c))

\* C21 witness: a Filename with a leading slash and a document extension, a
\* GET that returned 200, and the URL without the doubled slash.
C21_Witness ==
    /\ lastStep = "FetchCall"
    /\ TheRow.site = "up"
    /\ TheRow.filename = <<"/", "e", "/", "1", "/", "a", ".", "h", "t", "m">>
    /\ last.status = "Success (direct)"
    /\ last.url = ARCHIVES_ROOT \o <<"e", "/", "1", "/", "a", ".", "h", "t", "m">>


\* ---- part numbering of a fresh run (SpecFresh)
\* The indexes of the parts this run wrote.
WrittenByRun == {k \in DOMAIN parts : parts[k] # OldPart}

\* C22 as stated: an index is consumed only when a part is written, so the
\* parts a fresh run wrote have exactly the indexes 0..k-1.
C22_PartsContiguousFromZero ==
    /\ WrittenByRun = 0..(Cardinality(WrittenByRun) - 1)
    /\ out_part = Cardinality(WrittenByRun)

\* C22 amended: a fresh run consumes the indexes 0..out_part-1 in order; every
\* consumed index holds a part, written by this run or, only under
\* --skip-if-exists, found there and left as it was; no index beyond them is
\* written.
C22_ConsumedIndexesContiguous ==
    /\ \A k \in 0..(out_part - 1) :
          /\ k \in DOMAIN parts
          /\ parts[k] = OldPart => args.skip_if_exists
    /\ \A k \in DOMAIN parts : k >= out_part => parts[k] = OldPart
    /\ ~args.skip_if_exists => WrittenByRun = 0..(out_part - 1)

\* C22 witness: a fresh run under --skip-if-exists ended having consumed
\* index 0 without writing it and written index 1.
C22_Witness ==
    /\ pc = "done"
    /\ args.skip_if_exists
    /\ out_part = 2
    /\ parts[0] = OldPart
    /\ WrittenByRun = {1}


\* ---- the row loop (SpecRun)
\* What the step of a row that ended without content does: one failure record
\* appended, no counter of successes changed, no flush.
FailedRowStep ==
    lastStep' = "RecordFailure" =>
        /\ Len(buffer') = Len(buffer) + 1
        /\ SubSeq(buffer', 1, Len(buffer)) = buffer
        /\ buffer'[Len(buffer')].filing_text = "None"
        /\ buffer'[Len(buffer')].row = <<rg, i>>
        /\ total_ok' = total_ok /\ ok_in_part' = ok_in_part
        /\ pc' # "flush" /\ parts' = parts /\ out_part' = out_part

\* What the step of a row that ended with content does: one record with the
\* content appended, both counters of successes up by one, then the flush
\* check.
SucceededRowStep ==
    lastStep' = "RecordSuccess" =>
        /\ Len(buffer') = Len(buffer) + 1
        /\ SubSeq(buffer', 1, Len(buffer)) = buffer
        /\ buffer'[Len(buffer')].filing_text # "None"
        /\ buffer'[Len(buffer')].row = <<rg, i>>
        /\ total_ok' = total_ok + 1 /\ ok_in_part' = ok_in_part + 1
        /\ pc' = IF ok_in_part' >= args.checkpoint_every THEN "flush" ELSE "periodic"

\* The buffer grows only by the record of a row, one per processed row.
OneRecordPerRow ==
    /\ processed' # processed =>
          /\ processed' = processed \cup {<<rg, i>>}
          /\ <<rg, i>> \notin processed
          /\ lastStep' \in {"RecordFailure", "RecordSuccess"}
    /\ Len(buffer') > Len(buffer) => lastStep' \in {"RecordFailure", "RecordSuccess"}

\* C23 as stated: one record per processed row, a failed row never triggers a
\* flush, a succeeded row increments the counters and is followed by the flush
\* check, and flush_part is called inside the row loop only directly after a
\* success.
C23_RowStateMachine ==
    [][/\ FailedRowStep
       /\ SucceededRowStep
       /\ OneRecordPerRow
       /\ (pc \in {"row_head", "fetch"} /\ pc' = "flush") =>
             lastStep' = "RecordSuccess"]_vars

\* C23 amended: the same, with the one other call of flush_part inside the
\* row loop: the one made at the head of a row when --max-filings ends the
\* run, whatever the row before it did.
C23_RowStateMachineWithCap ==
    [][/\ FailedRowStep
       /\ SucceededRowStep
       /\ OneRecordPerRow
       /\ (pc \in {"row_head", "fetch"} /\ pc' = "flush") =>
             \/ lastStep' = "RecordSuccess"
             \/ /\ lastStep' = "RowHead"
                /\ args.max_filings # 0
                /\ total_seen' > args.max_filings
                /\ ret' = "maxf"]_vars

\* C23 witness: a failed row was recorded after a succeeded one, both records
\* are in the buffer and nothing was flushed.
C23_Witness ==
    /\ lastStep = "RecordFailure"
    /\ pc = "row_head"
    /\ Len(buffer) = 2
    /\ buffer[1].filing_text # "None"
    /\ buffer[2].filing_text = "None"
    /\ ok_in_part = 1 /\ total_ok = 1
    /\ parts = <<>>


\* ---- parts across a crash (Spec)
\* C24: without --skip-if-exists no step of a run, resumed or not, changes the
\* content of a part that is written: a resumed run never overwrites a part
\* of the interrupted run with different content.
C24_ResumeNeverOverwritesPart ==
    [][~args.skip_if_exists =>
          \A k \in DOMAIN parts : k \in DOMAIN parts' /\ parts'[k] = parts[k]]_vars


\* ---- the quarter-merge job across a kill (SpecMergeCrash)
\* C25: whatever the point at which the job is killed and run again, no row
\* of an input file is in a quarter file twice.
C25_RowsMergedAtMostOnce ==
    \A k \in Keys :
        \A a, b \in 1..Len(quarterObj[k].lines) :
            a # b =>
                <<quarterObj[k].lines[a].src, quarterObj[k].lines[a].idx>> #
                <<quarterObj[k].lines[b].src, quarterObj[k].lines[b].idx>>


\* ---- the checkpoint at the end of a run (SpecRerun)
\* The position of a saved checkpoint state.
SavedPos(state) ==
    <<DictGet(state, "rowgroup", 0), DictGet(state, "row_in_rowgroup", 0)>>

\* Lexicographic order of positions.
PosBefore(a, b) == a[1] < b[1] \/ (a[1] = b[1] /\ a[2] < b[2])

\* C26: the checkpoint a run leaves at its end is not past a candidate row the
\* run did not process, and a run started again from it without the caps
\* leaves no candidate row unprocessed.
C26_FinalCheckpointNotPastUnprocessed ==
    /\ (pc = "done" /\ run = 1) =>
          \A id \in AllCandidates : PosBefore(id, SavedPos(lastSaved)) => id \in processed
    /\ (pc = "done" /\ run = 2) => AllCandidates \subseteq processed \cup prevProcessed


\* ---- successive checkpoint saves of one run (SpecRun)
\* C27: from one save of a run to the next the saved position (rowgroup,
\* row_in_rowgroup) does not move backwards in lexicographic order.
C27_SavedPositionNeverMovesBack ==
    [][(lastSaved # <<>> /\ lastSaved' # lastSaved) =>
          ~PosBefore(SavedPos(lastSaved'), SavedPos(lastSaved))]_vars


\* ---- ok_in_part and the buffer (Spec)
\* C28: in every state of a run, resumed or not, ok_in_part is the number of
\* success records in the buffer.
C28_OkInPartCountsBufferedSuccesses == ok_in_part = SuccessesIn(buffer)


\* ---- ownership of the lock file (SpecMergeTwo)
\* What the claim says of an instance p in one step: finding the lock file it
\* leaves it where it is and has not acquired; having acquired it leaves
\* main, after the loop or by an exception, only with the lock file removed.
LockStepsOf(p) ==
    /\ (jpc[p] = "acquire" /\ jpc'[p] = "lock_failed") =>
          lockFile' = lockFile /\ lockFile /\ ~acquired'[p]
    /\ (jpc[p] = "lock_failed" /\ jpc'[p] = "lock_failed") =>
          (lockFile # lockFile' => \E q \in procs \ {p} : jpc'[q] # jpc[q])
    /\ (jpc[p] \notin {"done", "failed"} /\ jpc'[p] \in {"done", "failed"}) =>
          /\ acquired[p] /\ ~acquired'[p]
          /\ jpc[p] \in {"release", "raise"}
          /\ ~lockFile'

\* C29: an instance that finds the lock file leaves it where it is, an
\* instance that acquired removes it at every exit of main, and the lock file
\* is deleted only by the instance that created it.
C29_LockDeletedByCreator ==
    [][/\ \A p \in procs : LockStepsOf(p)
       /\ (lockFile /\ ~lockFile') =>
             \E q \in procs :
                /\ jpc[q] \in {"release", "raise"}
                /\ jpc'[q] \in {"done", "failed"}
                /\ lockCreator = q]_vars


\* ---- the manifest after a batch (SpecMerge)
\* The files process_batch takes no row from: required columns missing, or no
\* row with a valid quarter and year.
RowlessFiles == {f \in JobFiles : RowsOf(f) = <<>>}

\* C30: when a batch is done all its files are in the manifest, those without
\* rows included; the manifest keeps what it holds; and no pass, of this run
\* or a later one, puts a file of the manifest into a batch again.
C30_BatchFilesReachManifest ==
    [][\A p \in procs :
          /\ jpc'[p] \in {"pass", "batch", "release", "done"} =>
                handled'[p] \subseteq read_manifest(manifestObj')
          /\ jpc[p] = "manifest_delete" =>
                read_manifest(manifestObj) \cup FilesOf(batch[p])
                    \subseteq read_manifest(manifestTmp)
          /\ (jpc[p] = "manifest_move" /\ jpc'[p] = "batch") =>
                manifestObj' = manifestTmp
          /\ (jpc[p] = "batch" /\ jpc'[p] = "merge") =>
                FilesOf(batch'[p]) \cap read_manifest(manifestObj) = {}]_vars

\* C30 witness: a second run found the files without rows in the manifest and
\* put no file into a batch.
C30_Witness ==
    /\ jobRuns = 2
    /\ jpc[1] = "done"
    /\ handled[1] = {}
    /\ RowlessFiles # {}
    /\ RowlessFiles \subseteq inputFiles
    /\ RowlessFiles \subseteq read_manifest(manifestObj)

====
